---- MODULE Spec2Model ----
(***************************************************************************)
(* Berlin Open Data MCP server: the catalog client (ckan_request), the     *)
(* response formatter (format_dataset_summary, format_resource_info), the  *)
(* error translator (handle_api_error) and the six tools of server.py.     *)
(*                                                                         *)
(* Text.  A Python string built by an f-string is a sequence of tokens     *)
(* (its literal fragments and the values substituted into it); a value     *)
(* that the code slices ([:10], [:300]) is a sequence of characters and    *)
(* contributes its characters as tokens.  A text is the sequence of its    *)
(* lines, i.e. the string split at "\n": "\n".join(lines) of elements that *)
(* themselves hold line breaks is the concatenation of their lines.        *)
(*                                                                         *)
(* JSON.  An object is a record; a key the object lacks is a field the     *)
(* record lacks, so d.get(k, default) is Get(d, k, default) and d[k]       *)
(* raises KeyError when k is not in DOMAIN d.                              *)
(***************************************************************************)
EXTENDS Integers, Sequences, FiniteSets, TLC

VARIABLES
    pc,         \* per invocation: "idle", "invalid", "awaiting", "responded", "returned"
    params,     \* per invocation: the tool and its validated input model
    sent,       \* per invocation: the catalog requests its client has issued, in order
    response,   \* per invocation: what its own client.get produced
    ckan,       \* per invocation: how its ckan_request call ended (result returned or exception raised)
    ret,        \* per invocation: how the tool coroutine ended (text returned or exception raised)
    groups_cfg, \* the module-level BERLIN_GROUPS list
    fds,        \* one call of format_dataset_summary: its argument and its result
    hae         \* one call of handle_api_error: its arguments and its result

vars == <<pc, params, sent, response, ckan, ret, groups_cfg, fds, hae>>

----------------------------------------------------------------------------
\* Bounds of the model

\* number of tool invocations that may be in flight together
NumInv == 2
\* largest rows / limit / max_datasets value a caller passes (besides the out-of-range ones)
MaxArg == 2
\* largest offset a caller passes
MaxOffset == 1
\* largest total match count the catalog reports
MaxTotal == 3
\* longest result slice / tag list the catalog returns
MaxReturned == 3

Inv == 1..NumInv

----------------------------------------------------------------------------
\* Program constants

CKAN_BASE_URL == "https://datenregister.berlin.de"
CKAN_API_URL == <<CKAN_BASE_URL, "/api/3/action">>
PORTAL_URL == "https://daten.berlin.de"

BERLIN_GROUPS ==
    << "arbeit", "bildung", "demographie", "erholung", "geo", "gesundheit",
       "gleichstellung", "jugend", "justiz", "kultur", "oeffentlich",
       "protokolle", "sicherheit", "sonstiges", "sozial", "tourismus",
       "transport", "umwelt", "verbraucher", "verentsorgung", "verkehr",
       "verwaltung", "wahl", "wirtschaft", "wohnen" >>

\* notes[:300]
NOTES_MAX == 300
\* metadata_modified[:10]
MODIFIED_MAX == 10
\* tags[:10]
TAGS_MAX == 10
\* rows: ge=1, le=50
ROWS_MIN == 1
ROWS_MAX == 50
\* limit: ge=1, le=100
LIMIT_MIN == 1
LIMIT_MAX == 100
\* max_datasets: ge=1, le=20
MAX_DATASETS_MIN == 1
MAX_DATASETS_MAX == 20
\* offset: ge=0
OFFSET_MIN == 0
\* response.raise_for_status(): the success range of HTTP statuses
HTTP_OK_LO == 200
HTTP_OK_HI == 299

----------------------------------------------------------------------------
\* Python / JSON helpers

\* two characters of the program's string literals that a TLA+ string cannot hold
BACKTICK == "<backtick>"
EN_DASH == "<en dash>"
ARROW == "<rightwards arrow>"

\* Python's None, and str(None) inside an f-string
NONE == "<None>"
PyStr(v) == IF v = NONE THEN "None" ELSE v
\* the truth value of an Optional[str]
Truthy(v) == v # NONE /\ v # ""

\* d.get(k, default)
Get(d, k, default) == IF k \in DOMAIN d THEN d[k] ELSE default

\* s[:n]
Take(s, n) == SubSeq(s, 1, IF Len(s) < n THEN Len(s) ELSE n)

\* the tokens of ", ".join(items)
RECURSIVE JoinComma(_)
JoinComma(items) ==
    IF Len(items) = 0 THEN << >>
    ELSE IF Len(items) = 1 THEN << items[1] >>
    ELSE << items[1], ", " >> \o JoinComma(Tail(items))

\* the lines of a sequence of texts, concatenated: "\n".join over multi-line elements
RECURSIVE Flatten(_)
Flatten(texts) ==
    IF Len(texts) = 0 THEN << >> ELSE texts[1] \o Flatten(Tail(texts))

\* {e["key"]: e["value"] for e in extras}[key], the last entry of a key winning,
\* or default when no entry has the key
ExtrasGet(extras, key, default) ==
    LET idx == { j \in 1..Len(extras) : extras[j].key = key }
    IN  IF idx = {} THEN default
        ELSE extras[CHOOSE j \in idx : \A k \in idx : k <= j].value

----------------------------------------------------------------------------
\* Response formatter (api_client.py)

\* groups = [g.get("title", g.get("name", "")) for g in dataset.get("groups", [])]
group_titles(dataset) ==
    LET gs == Get(dataset, "groups", << >>)
    IN  [ j \in 1..Len(gs) |-> Get(gs[j], "title", Get(gs[j], "name", "")) ]

\* tags = [t.get("display_name", t.get("name", "")) for t in dataset.get("tags", [])]
tag_names(dataset) ==
    LET ts == Get(dataset, "tags", << >>)
    IN  [ j \in 1..Len(ts) |-> Get(ts[j], "display_name", Get(ts[j], "name", "")) ]

\* the six lines the list is created with
summary_head(dataset) ==
    LET title         == Get(dataset, "title", "Unbekannt")
        name          == Get(dataset, "name", "")
        author        == Get(dataset, "author", "Unbekannt")
        license_title == Get(dataset, "license_title", "Unbekannt")
        num_resources == Get(dataset, "num_resources", 0)
        modified      == Take(Get(dataset, "metadata_modified", << >>), MODIFIED_MAX)
    IN  << << "### ", title >>,
           << "- **ID**: ", BACKTICK, name, BACKTICK >>,
           << "- **Autor**: ", author >>,
           << "- **Lizenz**: ", license_title >>,
           << "- **Ressourcen**: ", ToString(num_resources) >>,
           << "- **Letzte Aenderung**: " >> \o modified >>

\* a mutant: the tags line is appended whether or not the dataset has tags
summary_conditional_always_tags(dataset) ==
    LET notes        == Take(Get(dataset, "notes", << >>), NOTES_MAX)
        groups       == group_titles(dataset)
        tags         == tag_names(dataset)
        extras       == Get(dataset, "extras", << >>)
        berlin_type  == ExtrasGet(extras, "berlin_type", "")
        geo_coverage == ExtrasGet(extras, "geographical_coverage", "")
        date_updated == ExtrasGet(extras, "date_updated", "")
    IN  (IF berlin_type # "" THEN << << "- **Typ**: ", berlin_type >> >> ELSE << >>)
        \o (IF date_updated # "" THEN << << "- **Daten aktualisiert**: ", date_updated >> >> ELSE << >>)
        \o (IF geo_coverage # "" THEN << << "- **Raeumliche Abdeckung**: ", geo_coverage >> >> ELSE << >>)
        \o (IF groups # << >> THEN << << "- **Kategorien**: " >> \o JoinComma(groups) >> ELSE << >>)
        \o << << "- **Tags**: " >> \o JoinComma(Take(tags, TAGS_MAX)) >>
        \o (IF notes # << >> THEN << << "- **Beschreibung**: " >> \o notes \o << "..." >> >> ELSE << >>)

\* a mutant: the date-updated line is appended before the type line
summary_conditional_swapped(dataset) ==
    LET notes        == Take(Get(dataset, "notes", << >>), NOTES_MAX)
        groups       == group_titles(dataset)
        tags         == tag_names(dataset)
        extras       == Get(dataset, "extras", << >>)
        berlin_type  == ExtrasGet(extras, "berlin_type", "")
        geo_coverage == ExtrasGet(extras, "geographical_coverage", "")
        date_updated == ExtrasGet(extras, "date_updated", "")
    IN  (IF date_updated # "" THEN << << "- **Daten aktualisiert**: ", date_updated >> >> ELSE << >>)
        \o (IF berlin_type # "" THEN << << "- **Typ**: ", berlin_type >> >> ELSE << >>)
        \o (IF geo_coverage # "" THEN << << "- **Raeumliche Abdeckung**: ", geo_coverage >> >> ELSE << >>)
        \o (IF groups # << >> THEN << << "- **Kategorien**: " >> \o JoinComma(groups) >> ELSE << >>)
        \o (IF tags # << >> THEN << << "- **Tags**: " >> \o JoinComma(Take(tags, TAGS_MAX)) >> ELSE << >>)
        \o (IF notes # << >> THEN << << "- **Beschreibung**: " >> \o notes \o << "..." >> >> ELSE << >>)

\* the lines appended under "if berlin_type: ... if notes:", in the code's order
summary_conditional(dataset) ==
    LET notes        == Take(Get(dataset, "notes", << >>), NOTES_MAX)
        groups       == group_titles(dataset)
        tags         == tag_names(dataset)
        extras       == Get(dataset, "extras", << >>)
        berlin_type  == ExtrasGet(extras, "berlin_type", "")
        geo_coverage == ExtrasGet(extras, "geographical_coverage", "")
        date_updated == ExtrasGet(extras, "date_updated", "")
    IN  (IF berlin_type # "" THEN << << "- **Typ**: ", berlin_type >> >> ELSE << >>)
        \o (IF date_updated # "" THEN << << "- **Daten aktualisiert**: ", date_updated >> >> ELSE << >>)
        \o (IF geo_coverage # "" THEN << << "- **Raeumliche Abdeckung**: ", geo_coverage >> >> ELSE << >>)
        \o (IF groups # << >> THEN << << "- **Kategorien**: " >> \o JoinComma(groups) >> ELSE << >>)
        \o (IF tags # << >> THEN << << "- **Tags**: " >> \o JoinComma(Take(tags, TAGS_MAX)) >> ELSE << >>)
        \o (IF notes # << >> THEN << << "- **Beschreibung**: " >> \o notes \o << "..." >> >> ELSE << >>)

\* url = f"{PORTAL_URL}/datensaetze/{name}"; lines.append(f"- **URL**: {url}")
summary_url(dataset) ==
    << "- **URL**: ", PORTAL_URL, "/datensaetze/", Get(dataset, "name", "") >>

format_dataset_summary(dataset) ==
    summary_head(dataset) \o summary_conditional(dataset) \o << summary_url(dataset) >>

format_resource_info(resource) ==
    << "  - **", Get(resource, "name", "Unbenannt"), "** (",
       Get(resource, "format", "?"), ") ", EN_DASH, " ", Get(resource, "url", "Keine URL") >>

----------------------------------------------------------------------------
\* Exceptions: the class of the raised object, the HTTP status it carries
\* (HTTPStatusError only) and the tokens of str(e)

NoExc == [cls |-> "", status |-> 0, msg |-> << >>]
HTTPStatusError(status) == [cls |-> "HTTPStatusError", status |-> status, msg |-> << "HTTP status ", ToString(status) >>]
ReadTimeout == [cls |-> "ReadTimeout", status |-> 0, msg |-> << "The read operation timed out" >>]
ConnectError == [cls |-> "ConnectError", status |-> 0, msg |-> << "All connection attempts failed" >>]
RuntimeError(msg) == [cls |-> "RuntimeError", status |-> 0, msg |-> msg]
\* str(KeyError(k)) is repr(k)
KeyError(k) == [cls |-> "KeyError", status |-> 0, msg |-> << "'", k, "'" >>]
ConnectTimeout == [cls |-> "ConnectTimeout", status |-> 0, msg |-> << "timed out" >>]
JSONDecodeError == [cls |-> "JSONDecodeError", status |-> 0, msg |-> << "Expecting value: line 1 column 1 (char 0)" >>]

\* the classes an exception object is an instance of
Bases(cls) ==
    CASE cls = "HTTPStatusError" -> {"HTTPStatusError", "HTTPError", "Exception"}
      [] cls = "ReadTimeout"     -> {"ReadTimeout", "TimeoutException", "TransportError", "RequestError", "HTTPError", "Exception"}
      [] cls = "ConnectError"    -> {"ConnectError", "NetworkError", "TransportError", "RequestError", "HTTPError", "Exception"}
      [] cls = "ConnectTimeout"  -> {"ConnectTimeout", "TimeoutException", "TransportError", "RequestError", "HTTPError", "Exception"}
      [] cls = "JSONDecodeError" -> {"JSONDecodeError", "ValueError", "Exception"}
      [] cls = "RuntimeError"    -> {"RuntimeError", "Exception"}
      [] cls = "KeyError"        -> {"KeyError", "LookupError", "Exception"}
      [] OTHER                   -> {}

IsInstance(e, cls) == cls \in Bases(e.cls)

\* how a piece of Python code ends: it returns a value or raises
Return(v) == [raised |-> FALSE, exc |-> NoExc, value |-> v]
Raise(e) == [raised |-> TRUE, exc |-> e, value |-> << >>]

----------------------------------------------------------------------------
\* Error translator (api_client.py)

\* a mutant: the timeout branch comes first and tests for any httpx error
handle_api_error_httpx_first(e, context) ==
    LET prefix == IF context # "" THEN << "Fehler bei ", context, ": " >> ELSE << "Fehler: " >>
    IN  IF IsInstance(e, "HTTPError")
        THEN << prefix \o << "Zeitueberschreitung. Bitte erneut versuchen." >> >>
        ELSE << prefix \o << e.cls, ": " >> \o e.msg >>

handle_api_error(e, context) ==
    LET prefix == IF context # "" THEN << "Fehler bei ", context, ": " >> ELSE << "Fehler: " >>
    IN  IF IsInstance(e, "HTTPStatusError")
        THEN LET status == e.status
             IN  IF status = 404 THEN << prefix \o << "Ressource nicht gefunden. Bitte ID/Name pruefen." >> >>
                 ELSE IF status = 403 THEN << prefix \o << "Zugriff verweigert." >> >>
                 ELSE IF status = 429 THEN << prefix \o << "Zu viele Anfragen. Bitte warten." >> >>
                 ELSE << prefix \o << "HTTP-Fehler ", ToString(status) >> >>
        ELSE IF IsInstance(e, "TimeoutException")
        THEN << prefix \o << "Zeitueberschreitung. Bitte erneut versuchen." >> >>
        ELSE << prefix \o << e.cls, ": " >> \o e.msg >>

----------------------------------------------------------------------------
\* Catalog client (api_client.py)

\* What "await client.get(url, params=...)" produces for its caller: the call
\* raises a transport exception, or returns a response with a status and a
\* JSON body.
GetRaises(e) == [kind |-> "raise", exc |-> e, status |-> 0, body |-> [success |-> FALSE]]
GetReturns(status, body) == [kind |-> "response", exc |-> NoExc, status |-> status, body |-> body]

\* url = f"{CKAN_API_URL}/{action}"; client.get(url, params=params or {})
CatalogQuery(action, parameters) ==
    [url |-> CKAN_API_URL \o << "/", action >>, action |-> action, params |-> parameters]

\* what the awaiting coroutine is resumed with: the outcome of client.get,
\* which belongs to the request that client sent
Received(r, req) ==
    [kind |-> r.kind, exc |-> r.exc, status |-> r.status, body |-> r.body, request |-> req]
NoResponse ==
    [kind |-> "none", exc |-> NoExc, status |-> 0, body |-> [success |-> FALSE],
     request |-> CatalogQuery("", << >>)]

\* a mutant: the envelope's success flag is not inspected
ckan_request_no_envelope_check(resp) ==
    IF resp.kind = "raise" THEN Raise(resp.exc)
    ELSE IF ~(resp.status >= HTTP_OK_LO /\ resp.status <= HTTP_OK_HI)
    THEN Raise(HTTPStatusError(resp.status))
    ELSE LET data == resp.body
         IN  IF "result" \notin DOMAIN data THEN Raise(KeyError("result"))
             ELSE Return(data.result)

\* the part of ckan_request after the await: raise_for_status, json, envelope
ckan_request(resp) ==
    IF resp.kind = "raise" THEN Raise(resp.exc)
    ELSE IF ~(resp.status >= HTTP_OK_LO /\ resp.status <= HTTP_OK_HI)
    THEN Raise(HTTPStatusError(resp.status))
    ELSE LET data == resp.body
         IN  IF ~Get(data, "success", FALSE)
             THEN LET error_msg == Get(Get(data, "error", << >>), "message", "Unknown CKAN error")
                  IN  Raise(RuntimeError(<< "CKAN API error: ", error_msg >>))
             ELSE IF "result" \notin DOMAIN data THEN Raise(KeyError("result"))
             ELSE Return(data.result)

----------------------------------------------------------------------------
\* The tools' "except Exception as e: return handle_api_error(e, context)"

\* a mutant: the handler catches httpx errors only
except_httpx_only(outcome, context) ==
    IF outcome.raised /\ IsInstance(outcome.exc, "HTTPError")
    THEN Return(handle_api_error(outcome.exc, context))
    ELSE outcome

except_Exception(outcome, context) ==
    IF outcome.raised /\ IsInstance(outcome.exc, "Exception")
    THEN Return(handle_api_error(outcome.exc, context))
    ELSE outcome

----------------------------------------------------------------------------
\* Tool 1: berlin_search_datasets (server.py)

\* api_params of the search; sort and fq are set only when given
search_api_params(p) ==
    [q |-> p.query, rows |-> p.rows, start |-> p.offset]
    @@ (IF Truthy(p.sort) THEN [sort |-> p.sort] ELSE << >>)
    @@ (IF Truthy(p.filter_group) THEN [fq |-> << "groups:", p.filter_group >>] ELSE << >>)

\* one summary per dataset, each followed by lines.append("")
summary_blocks(datasets) ==
    Flatten([ j \in 1..Len(datasets) |-> format_dataset_summary(datasets[j]) \o << << >> >> ])

\* a mutant: the hint is appended whenever the total is positive
search_hint_always(total, offset, n) ==
    IF total > 0
    THEN << << "*", ARROW, " Weitere Ergebnisse mit offset=", ToString(offset + n), "*" >> >>
    ELSE << >>

\* if total > params.offset + len(datasets): lines.append(...)
search_hint(total, offset, n) ==
    IF total > offset + n
    THEN << << "*", ARROW, " Weitere Ergebnisse mit offset=", ToString(offset + n), "*" >> >>
    ELSE << >>

\* a mutant: an empty result slice is rendered like any other
search_render_no_empty_check(p, total, datasets) ==
    << << "## Suchergebnis: ", ToString(total), " Datensaetze fuer '", p.query, "'" >>,
       << "Zeige ", ToString(Len(datasets)), " von ", ToString(total),
          " (Offset: ", ToString(p.offset), ")" >>,
       << >> >>
    \o summary_blocks(datasets)
    \o search_hint(total, p.offset, Len(datasets))

\* from "if not datasets" to the return of the joined lines
search_render(p, total, datasets) ==
    IF Len(datasets) = 0
    THEN << << "Keine Datensaetze gefunden fuer '", p.query, "'." >> >>
    ELSE << << "## Suchergebnis: ", ToString(total), " Datensaetze fuer '", p.query, "'" >>,
            << "Zeige ", ToString(Len(datasets)), " von ", ToString(total),
               " (Offset: ", ToString(p.offset), ")" >>,
            << >> >>
         \o summary_blocks(datasets)
         \o search_hint(total, p.offset, Len(datasets))

\* the try block after the await
search_try(p, resp) ==
    LET r == ckan_request(resp)
    IN  IF r.raised THEN r
        ELSE IF "count" \notin DOMAIN r.value THEN Raise(KeyError("count"))
        ELSE IF "results" \notin DOMAIN r.value THEN Raise(KeyError("results"))
        ELSE Return(search_render(p, r.value.count, r.value.results))

berlin_search_datasets(p, resp) == except_Exception(search_try(p, resp), "Datensatzsuche")

----------------------------------------------------------------------------
\* Tool 2: berlin_get_dataset (server.py)

\* k.startswith("harvest"), over the extras keys the catalog uses
StartsWithHarvest(k) == k \in {"harvest_object_id", "harvest_source_id", "harvest_source_title"}

\* the items of {e["key"]: e["value"] for e in extras}: each key once, at the
\* place of its first entry, with the value of its last entry
extras_items(extras) ==
    LET first == { j \in 1..Len(extras) : \A k \in 1..(j - 1) : extras[k].key # extras[j].key }
        keys == SelectSeq([ j \in 1..Len(extras) |->
                    [key |-> extras[j].key, first |-> j \in first] ], LAMBDA x : x.first)
    IN  [ j \in 1..Len(keys) |->
            [key |-> keys[j].key, value |-> ExtrasGet(extras, keys[j].key, "")] ]

get_dataset_try(p, resp) ==
    LET r == ckan_request(resp)
    IN  IF r.raised THEN r
        ELSE LET result    == r.value
                 resources == Get(result, "resources", << >>)
                 items     == extras_items(Get(result, "extras", << >>))
                 shown     == SelectSeq(items, LAMBDA x : ~StartsWithHarvest(x.key))
             IN  Return(
                    format_dataset_summary(result)
                    \o << << >>, << "#### Ressourcen / Downloads" >>, << >> >>
                    \o [ j \in 1..Len(resources) |-> format_resource_info(resources[j]) ]
                    \o (IF Len(items) > 0
                        THEN << << >>, << "#### Zusaetzliche Metadaten" >> >>
                             \o [ j \in 1..Len(shown) |->
                                    << "- **", shown[j].key, "**: ", shown[j].value >> ]
                        ELSE << >>))

berlin_get_dataset(p, resp) == except_Exception(get_dataset_try(p, resp), "Datensatz-Details")

----------------------------------------------------------------------------
\* Tool 3: berlin_list_categories (server.py)

\* the first list element that lacks one of the subscripted keys, 0 when none does
FirstLacking(items, keys) ==
    LET bad == { j \in 1..Len(items) : \E k \in keys : k \notin DOMAIN items[j] }
    IN  IF bad = {} THEN 0 ELSE CHOOSE j \in bad : \A k \in bad : j <= k

\* the key of the KeyError: "title" is subscripted before "name"
LackingKey(item) == IF "title" \notin DOMAIN item THEN "title" ELSE "name"

list_categories_try(p, resp) ==
    LET r == ckan_request(resp)
    IN  IF r.raised THEN r
        ELSE IF Truthy(p.group_id)
        THEN LET result   == r.value
                 packages == Get(result, "packages", << >>)
                 bad      == FirstLacking(packages, {"title", "name"})
             IN  IF "title" \notin DOMAIN result THEN Raise(KeyError("title"))
                 ELSE IF bad # 0 THEN Raise(KeyError(LackingKey(packages[bad])))
                 ELSE Return(
                    << << "## Kategorie: ", result.title >>,
                       << "**Datensaetze**: ", ToString(Get(result, "package_count", 0)) >>,
                       << >> >>
                    \o [ j \in 1..Len(packages) |->
                           << "- **", packages[j].title, "** (", BACKTICK, packages[j].name, BACKTICK, ")" >> ])
        ELSE LET result == r.value
                 bad    == FirstLacking(result, {"title", "name"})
             IN  IF bad # 0 THEN Raise(KeyError(LackingKey(result[bad])))
                 ELSE Return(
                    << << "## Datenkategorien des Landes Berlin" >>, << >> >>
                    \o [ j \in 1..Len(result) |->
                           << "- **", result[j].title, "** (", BACKTICK, result[j].name, BACKTICK, ") ",
                              EN_DASH, " ", ToString(Get(result[j], "package_count", 0)), " Datensaetze" >> ])

berlin_list_categories(p, resp) == except_Exception(list_categories_try(p, resp), "Kategorien")

\* the request of list-categories: group_show with an argument, group_list without
list_categories_query(p) ==
    IF Truthy(p.group_id)
    THEN CatalogQuery("group_show",
            [id |-> p.group_id, include_datasets |-> TRUE, include_dataset_count |-> TRUE])
    ELSE CatalogQuery("group_list", [all_fields |-> TRUE, include_dataset_count |-> TRUE])

----------------------------------------------------------------------------
\* Tool 4: berlin_list_tags (server.py)

tags_api_params(p) == IF Truthy(p.query) THEN [query |-> p.query] ELSE << >>

\* a mutant: the result is not cut to the limit
tags_slice_uncut(result, limit) == result

\* tags = result[: params.limit]
tags_slice(result, limit) == Take(result, limit)

list_tags_try(p, resp) ==
    LET r == ckan_request(resp)
    IN  IF r.raised THEN r
        ELSE IF Len(r.value) = 0
        THEN Return(<< << "Keine Tags gefunden fuer '", PyStr(p.query), "'." >> >>)
        ELSE LET tags == tags_slice(r.value, p.limit)
             IN  Return(
                    << << "## Tags (", ToString(Len(tags)), " Ergebnisse)" >>, << >> >>
                    \o [ j \in 1..Len(tags) |-> << "- ", BACKTICK, tags[j], BACKTICK >> ]
                    \o << << >>,
                          << "*Tipp: Nutze ", BACKTICK, "berlin_search_datasets", BACKTICK,
                             " mit ", BACKTICK, "filter_group", BACKTICK, " oder Solr-Query ",
                             BACKTICK, "tags:tagname", BACKTICK, "*" >> >>)

berlin_list_tags(p, resp) == except_Exception(list_tags_try(p, resp), "Tag-Suche")

----------------------------------------------------------------------------
\* Tool 5: berlin_analyze_datasets (server.py)

analyze_api_params(p) == [q |-> p.query, rows |-> p.max_datasets, sort |-> "score desc"]

\* the resource formats of the catalog, in the order Python's sorted() gives strings
FormatOrder == << "?", "CSV", "JSON", "PDF", "WMS", "csv" >>

\* formats = sorted(set(r.get("format", "?") for r in resources))
sorted_formats(resources) ==
    LET present == { Get(resources[j], "format", "?") : j \in 1..Len(resources) }
    IN  SelectSeq(FormatOrder, LAMBDA f : f \in present)

\* a mutant: the freshness lines are appended whatever the flag says
analyze_freshness_unconditional(p, ds) ==
    LET modified     == Take(Get(ds, "metadata_modified", << "?" >>), MODIFIED_MAX)
        date_updated == ExtrasGet(Get(ds, "extras", << >>), "date_updated", "")
    IN  << << "- **Letzte Aenderung**: " >> \o modified >>
        \o (IF date_updated # ""
            THEN << << "- **Daten aktualisiert**: ", date_updated >> >> ELSE << >>)

\* if params.include_freshness: ...
analyze_freshness(p, ds) ==
    LET modified     == Take(Get(ds, "metadata_modified", << "?" >>), MODIFIED_MAX)
        date_updated == ExtrasGet(Get(ds, "extras", << >>), "date_updated", "")
    IN  IF p.include_freshness
        THEN << << "- **Letzte Aenderung**: " >> \o modified >>
             \o (IF date_updated # ""
                 THEN << << "- **Daten aktualisiert**: ", date_updated >> >> ELSE << >>)
        ELSE << >>

\* if params.include_structure: for res in resources: ...
analyze_structure(p, ds) ==
    LET resources == Get(ds, "resources", << >>)
    IN  IF p.include_structure
        THEN [ j \in 1..Len(resources) |->
                << "  - ", Get(resources[j], "name", "Unbenannt"), " (",
                   Get(resources[j], "format", "?"), "): ", Get(resources[j], "url", "") >> ]
        ELSE << >>

\* one pass of "for i, ds in enumerate(datasets, 1)"
analyze_entry(p, i, ds) ==
    LET name         == Get(ds, "name", "")
        title        == Get(ds, "title", "?")
        resources    == Get(ds, "resources", << >>)
        formats      == sorted_formats(resources)
        geo_coverage == ExtrasGet(Get(ds, "extras", << >>), "geographical_coverage", "")
    IN  << << "### ", ToString(i), ". ", title >>,
           << "- **ID**: ", BACKTICK, name, BACKTICK >>,
           << "- **Formate**: " >> \o JoinComma(formats),
           << "- **Ressourcen**: ", ToString(Len(resources)) >> >>
        \o analyze_freshness(p, ds)
        \o analyze_structure(p, ds)
        \o (IF geo_coverage # ""
            THEN << << "- **Raeumliche Abdeckung**: ", geo_coverage >> >> ELSE << >>)
        \o << << "- **URL**: ", PORTAL_URL, "/datensaetze/", name >>, << >> >>

\* a mutant: the geographic coverage is read after the loop, from the variable
\* the last pass left behind, and appended once
analyze_entry_without_geo(p, i, ds) ==
    LET name      == Get(ds, "name", "")
        title     == Get(ds, "title", "?")
        resources == Get(ds, "resources", << >>)
        formats   == sorted_formats(resources)
    IN  << << "### ", ToString(i), ". ", title >>,
           << "- **ID**: ", BACKTICK, name, BACKTICK >>,
           << "- **Formate**: " >> \o JoinComma(formats),
           << "- **Ressourcen**: ", ToString(Len(resources)) >> >>
        \o analyze_freshness(p, ds)
        \o analyze_structure(p, ds)
        \o << << "- **URL**: ", PORTAL_URL, "/datensaetze/", name >>, << >> >>

analyze_try_geo_after_loop(p, resp) ==
    LET r == ckan_request(resp)
    IN  IF r.raised THEN r
        ELSE IF "results" \notin DOMAIN r.value THEN Raise(KeyError("results"))
        ELSE IF "count" \notin DOMAIN r.value THEN Raise(KeyError("count"))
        ELSE LET datasets == r.value.results
                 total    == r.value.count
             IN  IF Len(datasets) = 0
                 THEN Return(<< << "Keine Datensaetze gefunden fuer '", p.query, "'." >> >>)
                 ELSE LET geo_coverage ==
                             ExtrasGet(Get(datasets[Len(datasets)], "extras", << >>),
                                       "geographical_coverage", "")
                      IN  Return(
                             << << "## Analyse: '", p.query, "'" >>,
                                << "**", ToString(total), " Datensaetze gefunden**, Top ",
                                   ToString(Len(datasets)), " analysiert:" >>,
                                << >> >>
                             \o Flatten([ i \in 1..Len(datasets) |->
                                            analyze_entry_without_geo(p, i, datasets[i]) ])
                             \o (IF geo_coverage # ""
                                 THEN << << "- **Raeumliche Abdeckung**: ", geo_coverage >> >>
                                 ELSE << >>))

analyze_try(p, resp) ==
    LET r == ckan_request(resp)
    IN  IF r.raised THEN r
        ELSE IF "results" \notin DOMAIN r.value THEN Raise(KeyError("results"))
        ELSE IF "count" \notin DOMAIN r.value THEN Raise(KeyError("count"))
        ELSE LET datasets == r.value.results
                 total    == r.value.count
             IN  IF Len(datasets) = 0
                 THEN Return(<< << "Keine Datensaetze gefunden fuer '", p.query, "'." >> >>)
                 ELSE Return(
                    << << "## Analyse: '", p.query, "'" >>,
                       << "**", ToString(total), " Datensaetze gefunden**, Top ",
                          ToString(Len(datasets)), " analysiert:" >>,
                       << >> >>
                    \o Flatten([ i \in 1..Len(datasets) |-> analyze_entry(p, i, datasets[i]) ]))

berlin_analyze_datasets(p, resp) == except_Exception(analyze_try(p, resp), "Datensatz-Analyse")

----------------------------------------------------------------------------
\* Tool 6: berlin_catalog_stats (server.py)

\* for item in sorted(items, ...)[:10] of the format facet
FORMAT_TOP == 10

stats_api_params ==
    [q |-> "*:*", rows |-> 0,
     facet_field |-> << "groups", "res_format", "tags" >>, facet_limit |-> "15"]

\* sorted(items, key=lambda x: x.get("count", 0), reverse=True): stable, so items
\* of equal count keep the catalog's order
RECURSIVE InsertByCountDesc(_, _)
InsertByCountDesc(sorted, x) ==
    IF Len(sorted) = 0 THEN << x >>
    ELSE IF Get(Head(sorted), "count", 0) >= Get(x, "count", 0)
    THEN << Head(sorted) >> \o InsertByCountDesc(Tail(sorted), x)
    ELSE << x >> \o sorted

RECURSIVE SortedByCountDesc(_)
SortedByCountDesc(items) ==
    IF Len(items) = 0 THEN << >>
    ELSE InsertByCountDesc(SortedByCountDesc(SubSeq(items, 1, Len(items) - 1)), items[Len(items)])

\* A facet value is a JSON object (shape "dict", with or without "items"), a JSON
\* list (shape "list") or anything else; isinstance picks the items.
facet_items(facet) ==
    IF facet.shape = "dict" THEN Get(facet, "items", << >>)
    ELSE IF facet.shape = "list" THEN facet.list
    ELSE << >>

facet_lines(items) ==
    [ j \in 1..Len(items) |->
        << "- **", Get(items[j], "display_name", Get(items[j], "name", "?")), "**: ",
           ToString(Get(items[j], "count", 0)) >> ]

catalog_stats_try(resp) ==
    LET r == ckan_request(resp)
    IN  IF r.raised THEN r
        ELSE IF "count" \notin DOMAIN r.value THEN Raise(KeyError("count"))
        ELSE LET result == r.value
                 total  == result.count
                 facets == Get(result, "search_facets", Get(result, "facets", << >>))
             IN  Return(
                    << << "## Open Data Katalog ", EN_DASH, " Land Berlin" >>,
                       << "**Gesamtzahl Datensaetze**: ", ToString(total) >>,
                       << >>,
                       << "**Portal**: ", PORTAL_URL >>,
                       << "**Lizenzen**: CC0, CC-BY, Datenlizenz Deutschland (Zero/Namensnennung), GeoNutzV u.a." >>,
                       << >> >>
                    \o (IF "groups" \in DOMAIN facets
                        THEN << << "### Kategorien" >> >>
                             \o facet_lines(SortedByCountDesc(facet_items(facets.groups)))
                        ELSE << >>)
                    \o (IF "res_format" \in DOMAIN facets
                        THEN << << >>, << "### Haeufigste Formate" >> >>
                             \o facet_lines(Take(SortedByCountDesc(facet_items(facets.res_format)), FORMAT_TOP))
                        ELSE << >>))

berlin_catalog_stats(p, resp) == except_Exception(catalog_stats_try(resp), "Katalog-Statistiken")

----------------------------------------------------------------------------
\* Input models (server.py): the Field constraints pydantic checks before a
\* tool runs.  A payload that fails them never reaches the tool.

SearchDatasetsInput(p) ==
    /\ p.query # ""
    /\ p.rows >= ROWS_MIN /\ p.rows <= ROWS_MAX
    /\ p.offset >= OFFSET_MIN

GetDatasetInput(p) == p.dataset_id # ""

ListGroupInput(p) == TRUE

TagSearchInput(p) == p.limit >= LIMIT_MIN /\ p.limit <= LIMIT_MAX

AnalyzeDatasetInput(p) ==
    /\ p.query # ""
    /\ p.max_datasets >= MAX_DATASETS_MIN /\ p.max_datasets <= MAX_DATASETS_MAX

Valid(p) ==
    CASE p.tool = "search"     -> SearchDatasetsInput(p)
      [] p.tool = "get"        -> GetDatasetInput(p)
      [] p.tool = "categories" -> ListGroupInput(p)
      [] p.tool = "tags"       -> TagSearchInput(p)
      [] p.tool = "analyze"    -> AnalyzeDatasetInput(p)
      [] p.tool = "stats"      -> TRUE

----------------------------------------------------------------------------
\* State

NoParams == [tool |-> "none"]
NotReturned == Return(<< >>)
NoDataset == [name |-> ""]
NoCall == [e |-> NoExc, context |-> "", done |-> FALSE, ret |-> << >>]

\* no tool has been invoked
InitInvocations ==
    /\ pc = [i \in Inv |-> "idle"]
    /\ params = [i \in Inv |-> NoParams]
    /\ sent = [i \in Inv |-> << >>]
    /\ response = [i \in Inv |-> NoResponse]
    /\ ckan = [i \in Inv |-> NotReturned]
    /\ ret = [i \in Inv |-> NotReturned]
    /\ groups_cfg = BERLIN_GROUPS

Init ==
    /\ InitInvocations
    /\ fds = [arg |-> NoDataset, done |-> FALSE, ret |-> << >>]
    /\ hae = NoCall

\* the request an invocation is waiting on
Pending(i) == sent[i][Len(sent[i])]

\* The runtime validates the payload; an invalid one is answered by the
\* runtime's ValidationError and the tool function is not called.
Reject(i, p) ==
    /\ pc[i] = "idle"
    /\ ~Valid(p)
    /\ pc' = [pc EXCEPT ![i] = "invalid"]
    /\ params' = [params EXCEPT ![i] = p]
    /\ UNCHANGED <<sent, response, ckan, ret, groups_cfg, fds, hae>>

\* The tool coroutine runs from its first line to "await client.get(...)" of
\* ckan_request: _get_client() builds a client of its own and the request is sent.
Start(i, p, action, api_params) ==
    /\ pc[i] = "idle"
    /\ Valid(p)
    /\ pc' = [pc EXCEPT ![i] = "awaiting"]
    /\ params' = [params EXCEPT ![i] = p]
    /\ sent' = [sent EXCEPT ![i] = Append(@, CatalogQuery(action, api_params))]
    /\ UNCHANGED <<response, ckan, ret, groups_cfg, fds, hae>>

\* a mutant: a failed attempt is sent again instead of being reported
FinishOrRetry(i, outcome) ==
    /\ pc[i] = "responded"
    /\ IF ckan_request(response[i]).raised /\ Len(sent[i]) < 2
       THEN /\ pc' = [pc EXCEPT ![i] = "awaiting"]
            /\ sent' = [sent EXCEPT ![i] = Append(@, Pending(i))]
            /\ UNCHANGED <<ckan, ret>>
       ELSE /\ pc' = [pc EXCEPT ![i] = "returned"]
            /\ ckan' = [ckan EXCEPT ![i] = ckan_request(response[i])]
            /\ ret' = [ret EXCEPT ![i] = outcome]
            /\ UNCHANGED sent
    /\ UNCHANGED <<params, response, groups_cfg, fds, hae>>

\* The coroutine resumes with what client.get produced and runs to its end:
\* the rest of ckan_request, the rendering, or the except clause.
Finish(i, outcome) ==
    /\ pc[i] = "responded"
    /\ pc' = [pc EXCEPT ![i] = "returned"]
    /\ ckan' = [ckan EXCEPT ![i] = ckan_request(response[i])]
    /\ ret' = [ret EXCEPT ![i] = outcome]
    /\ UNCHANGED <<params, sent, response, groups_cfg, fds, hae>>

\* a mutant: one client shared by all invocations, whose last response every
\* waiting invocation picks up
client_get_completes_shared(i, r) ==
    /\ pc[i] = "awaiting"
    /\ pc' = [j \in Inv |-> IF pc[j] = "awaiting" THEN "responded" ELSE pc[j]]
    /\ response' = [j \in Inv |-> IF pc[j] = "awaiting" THEN Received(r, Pending(i)) ELSE response[j]]
    /\ UNCHANGED <<params, sent, ckan, ret, groups_cfg, fds, hae>>

\* The transport and the catalog answer the pending request of invocation i:
\* client.get raises or returns a response.
client_get_completes(i, r) ==
    /\ pc[i] = "awaiting"
    /\ pc' = [pc EXCEPT ![i] = "responded"]
    /\ response' = [response EXCEPT ![i] = Received(r, Pending(i))]
    /\ UNCHANGED <<params, sent, ckan, ret, groups_cfg, fds, hae>>

berlin_search_datasets_call(i, p) ==
    p.tool = "search" /\ Start(i, p, "package_search", search_api_params(p))

berlin_search_datasets_resume(i) ==
    params[i].tool = "search" /\ Finish(i, berlin_search_datasets(params[i], response[i]))

berlin_get_dataset_call(i, p) ==
    p.tool = "get" /\ Start(i, p, "package_show", [id |-> p.dataset_id])

berlin_get_dataset_resume(i) ==
    params[i].tool = "get" /\ Finish(i, berlin_get_dataset(params[i], response[i]))

berlin_list_categories_call(i, p) ==
    /\ p.tool = "categories"
    /\ Start(i, p, list_categories_query(p).action, list_categories_query(p).params)

berlin_list_categories_resume(i) ==
    params[i].tool = "categories" /\ Finish(i, berlin_list_categories(params[i], response[i]))

berlin_list_tags_call(i, p) ==
    p.tool = "tags" /\ Start(i, p, "tag_list", tags_api_params(p))

berlin_list_tags_resume(i) ==
    params[i].tool = "tags" /\ Finish(i, berlin_list_tags(params[i], response[i]))

berlin_analyze_datasets_call(i, p) ==
    p.tool = "analyze" /\ Start(i, p, "package_search", analyze_api_params(p))

berlin_analyze_datasets_resume(i) ==
    params[i].tool = "analyze" /\ Finish(i, berlin_analyze_datasets(params[i], response[i]))

berlin_catalog_stats_call(i, p) ==
    p.tool = "stats" /\ Start(i, p, "package_search", stats_api_params)

berlin_catalog_stats_resume(i) ==
    params[i].tool = "stats" /\ Finish(i, berlin_catalog_stats(params[i], response[i]))

\* one call of the pure formatter on the dataset drawn by InitFormat
format_dataset_summary_call ==
    /\ ~fds.done
    /\ fds' = [arg |-> fds.arg, done |-> TRUE, ret |-> format_dataset_summary(fds.arg)]
    /\ UNCHANGED <<pc, params, sent, response, ckan, ret, groups_cfg, hae>>

\* one call of the error translator on the failure and the context drawn by InitErrors
handle_api_error_call ==
    /\ ~hae.done
    /\ hae' = [e |-> hae.e, context |-> hae.context, done |-> TRUE,
               ret |-> handle_api_error(hae.e, hae.context)]
    /\ UNCHANGED <<pc, params, sent, response, ckan, ret, groups_cfg, fds>>

----------------------------------------------------------------------------
\* The catalog's data, as far as the model draws it

\* an ISO-8601 timestamp and two descriptions, as characters
Timestamp == << "2", "0", "2", "4", "-", "0", "3", "-", "1", "5", "T", "0", "9", ":", "3", "0" >>
ShortNotes == << "K", "u", "r", "s", "e" >>
LongNotes == [ j \in 1..(NOTES_MAX + 1) |-> "x" ]

\* an optional key of a JSON object
Opt(present, k, v) == IF present THEN k :> v ELSE << >>

ResCsv == [name |-> "Tabelle", format |-> "CSV", url |-> "https://example.org/t.csv"]
ResWms == [name |-> "Karte", format |-> "WMS", url |-> "https://example.org/wms"]
ResBare == [format |-> "CSV"]

\* a dataset with every field, one with the name only, one with a description only
DatasetA ==
    [name |-> "kurse", title |-> "Kurse", author |-> "VHS", license_title |-> "CC BY",
     num_resources |-> 2, metadata_modified |-> Timestamp, notes |-> ShortNotes,
     groups |-> << [name |-> "bildung", title |-> "Bildung"] >>,
     tags |-> << [name |-> "kita", display_name |-> "Kita"], [name |-> "vhs"] >>,
     extras |-> << [key |-> "berlin_type", value |-> "datensatz"],
                   [key |-> "date_updated", value |-> "2024-03-01"],
                   [key |-> "geographical_coverage", value |-> "Berlin"],
                   [key |-> "harvest_object_id", value |-> "h1"] >>,
     resources |-> << ResCsv, ResWms >>]
DatasetB == [name |-> "zaehlung"]
DatasetC ==
    [name |-> "baeume", title |-> "Baeume", notes |-> ShortNotes,
     extras |-> << [key |-> "geographical_coverage", value |-> "Mitte"] >>,
     resources |-> << ResBare >>]

\* all sequences over a set, up to a length
RECURSIVE SeqsUpTo(_, _)
SeqsUpTo(S, n) ==
    IF n = 0 THEN { << >> }
    ELSE LET shorter == SeqsUpTo(S, n - 1)
         IN  shorter \cup { Append(q, x) : q \in { t \in shorter : Len(t) = n - 1 }, x \in S }

Ok(result) == GetReturns(200, [success |-> TRUE, result |-> result])

StatsFacets ==
    [groups |-> [shape |-> "dict",
                 items |-> << [name |-> "bildung", display_name |-> "Bildung", count |-> 3],
                              [name |-> "verkehr", display_name |-> "Verkehr", count |-> 7] >>],
     res_format |-> [shape |-> "list",
                     list |-> << [name |-> "CSV", count |-> 5], [name |-> "PDF", count |-> 5] >>],
     tags |-> [shape |-> "dict", items |-> << [name |-> "kita", count |-> 1] >>]]

\* whether the catalog has the category a group_show request names
KnownGroup(req) == \E j \in 1..Len(BERLIN_GROUPS) : BERLIN_GROUPS[j] = req.params.id

\* the result payload of a request, when the catalog has what it asks for
GoodResult(req) ==
    CASE req.action = "package_search" ->
            IF req.params.rows = 0
            THEN [count |-> MaxTotal, results |-> << >>, search_facets |-> StatsFacets]
            ELSE [count |-> MaxTotal, results |-> << DatasetA >>]
      [] req.action = "package_show" -> DatasetA
      [] req.action = "group_show" ->
            [name |-> req.params.id, title |-> "Bildung", package_count |-> 1,
             packages |-> << [name |-> "kurse", title |-> "Kurse"] >>]
      [] req.action = "group_list" ->
            << [name |-> "bildung", title |-> "Bildung", package_count |-> 1],
               [name |-> "verkehr", title |-> "Verkehr"] >>
      [] req.action = "tag_list" -> << "einwohner", "einwohnerzahl" >>

\* result payloads that lack a field the tool subscripts
LackingResults(req) ==
    CASE req.action = "package_search" ->
            { [results |-> << DatasetA >>], [count |-> MaxTotal] }
      [] req.action = "group_show" ->
            { [name |-> req.params.id, package_count |-> 1],
              [name |-> req.params.id, title |-> "Bildung",
               packages |-> << [name |-> "kurse", title |-> "Kurse"], [title |-> "Kita"] >>] }
      [] req.action = "group_list" ->
            { << [name |-> "bildung", title |-> "Bildung"], [name |-> "verkehr"] >> }
      [] OTHER -> { }

\* the HTTP statuses the catalog answers with
Statuses == {200, 299, 400, 403, 404, 429, 500}
ErrorBody == [success |-> FALSE, error |-> [message |-> "Not found"]]

\* the JSON envelopes of a request: the success flag, the error object and the
\* result are each there or not
Envelopes(req) ==
    { Opt(s # 0, "success", s = 2) @@ Opt(e # 0, "error", IF e = 1 THEN << >> ELSE [message |-> "Not found"])
      @@ Opt(r # << >>, "result", r[1]) :
        s \in 0..2, e \in 0..2,
        r \in { << >> } \cup { << x >> : x \in LackingResults(req) \cup { GoodResult(req) } } }

\* What the transport and the catalog may answer to a request, in the
\* specification of one invocation: client.get raises, or returns any status
\* with any envelope.  group_show of a slug the catalog does not have is never
\* answered with a success status and a true success flag.
ToolReplies(req) ==
    { GetRaises(ReadTimeout), GetRaises(ConnectError) }
    \cup { GetReturns(st, b) :
            st \in { x \in Statuses : x >= 400 },
            b \in { ErrorBody, [success |-> FALSE], [success |-> TRUE, result |-> GoodResult(req)] } }
    \cup { GetReturns(st, b) :
            st \in { x \in Statuses : x < 400 },
            b \in { y \in Envelopes(req) :
                     req.action = "group_show" /\ ~KnownGroup(req) => ~Get(y, "success", FALSE) } }

\* What they may answer in the specification of concurrent invocations: a
\* timeout, an envelope whose success flag is false, or the result.
MainReplies(req) ==
    { GetRaises(ReadTimeout), GetReturns(200, ErrorBody) }
    \cup (IF req.action = "group_show" /\ ~KnownGroup(req) THEN { } ELSE { Ok(GoodResult(req)) })

\* the payloads of the specification of all six tools
MainInputs ==
    { [tool |-> "search", query |-> "Einwohner", rows |-> r, offset |-> 0,
       sort |-> NONE, filter_group |-> NONE] : r \in {0, 1} }
    \cup { [tool |-> "get", dataset_id |-> "kurse"] }
    \cup { [tool |-> "categories", group_id |-> g] : g \in {NONE, "bildung", "gibtsnicht"} }
    \cup { [tool |-> "tags", query |-> NONE, limit |-> 1] }
    \cup { [tool |-> "analyze", query |-> "Verkehr", max_datasets |-> 1,
            include_structure |-> TRUE, include_freshness |-> TRUE] }
    \cup { [tool |-> "stats"] }

----------------------------------------------------------------------------
\* Specification of the six tools, NumInv invocations in flight

Next ==
    \E i \in Inv :
        \/ \E p \in MainInputs : Reject(i, p)
        \/ \E p \in MainInputs : berlin_search_datasets_call(i, p)
        \/ \E p \in MainInputs : berlin_get_dataset_call(i, p)
        \/ \E p \in MainInputs : berlin_list_categories_call(i, p)
        \/ \E p \in MainInputs : berlin_list_tags_call(i, p)
        \/ \E p \in MainInputs : berlin_analyze_datasets_call(i, p)
        \/ \E p \in MainInputs : berlin_catalog_stats_call(i, p)
        \/ (pc[i] = "awaiting" /\ \E r \in MainReplies(Pending(i)) : client_get_completes(i, r))
        \/ berlin_search_datasets_resume(i)
        \/ berlin_get_dataset_resume(i)
        \/ berlin_list_categories_resume(i)
        \/ berlin_list_tags_resume(i)
        \/ berlin_analyze_datasets_resume(i)
        \/ berlin_catalog_stats_resume(i)

Spec == Init /\ [][Next]_vars

----------------------------------------------------------------------------
\* Specification of one invocation of any of the six tools, against every
\* answer of the transport and the catalog

NextTools ==
    \/ \E p \in MainInputs : Reject(1, p)
    \/ \E p \in MainInputs : berlin_search_datasets_call(1, p)
    \/ \E p \in MainInputs : berlin_get_dataset_call(1, p)
    \/ \E p \in MainInputs : berlin_list_categories_call(1, p)
    \/ \E p \in MainInputs : berlin_list_tags_call(1, p)
    \/ \E p \in MainInputs : berlin_analyze_datasets_call(1, p)
    \/ \E p \in MainInputs : berlin_catalog_stats_call(1, p)
    \/ (pc[1] = "awaiting" /\ \E r \in ToolReplies(Pending(1)) : client_get_completes(1, r))
    \/ berlin_search_datasets_resume(1)
    \/ berlin_get_dataset_resume(1)
    \/ berlin_list_categories_resume(1)
    \/ berlin_list_tags_resume(1)
    \/ berlin_analyze_datasets_resume(1)
    \/ berlin_catalog_stats_resume(1)

SpecTools == Init /\ [][NextTools]_vars

----------------------------------------------------------------------------
\* Specification of the pure formatter: Init draws the dataset, the action
\* applies format_dataset_summary to it

ExtraChoice(key, value) ==
    { << >>, << [key |-> key, value |-> ""] >>, << [key |-> key, value |-> value] >> }

\* extras lists with unique keys, in two orders, with and without a harvest key
ExtrasLists ==
    LET T == ExtraChoice("berlin_type", "datensatz")
        U == ExtraChoice("date_updated", "2024-03-01")
        G == ExtraChoice("geographical_coverage", "Berlin")
    IN  { t \o u \o g : t \in T, u \in U, g \in G }
        \cup { g \o u \o t : t \in T, u \in U, g \in G }
        \cup { << [key |-> "harvest_object_id", value |-> "h1"] >> \o t : t \in T }

GroupLists ==
    { << >>,
      << [name |-> "bildung", title |-> "Bildung"] >>,
      << [name |-> "bildung", title |-> "Bildung"], [name |-> "verkehr"] >> }

TagLists ==
    { << >>,
      << [name |-> "kita", display_name |-> "Kita"] >>,
      [ j \in 1..(TAGS_MAX + 1) |-> [name |-> ToString(j)] ] }

FormatInputs ==
    { [name |-> "kurse", title |-> "Kurse", author |-> "VHS", license_title |-> "CC BY",
       num_resources |-> 2]
      @@ Opt(m, "metadata_modified", Timestamp)
      @@ Opt(n # 0, "notes", CASE n = 1 -> << >> [] n = 2 -> ShortNotes [] OTHER -> LongNotes)
      @@ Opt(e # 0, "extras", x)
      @@ Opt(g # << >> \/ m, "groups", g)
      @@ Opt(t # << >> \/ ~m, "tags", t) :
        m \in BOOLEAN, n \in 0..3, e \in 0..1, x \in ExtrasLists, g \in GroupLists, t \in TagLists }
    \cup { DatasetB, << >> }

InitFormat ==
    /\ InitInvocations
    /\ \E d \in FormatInputs : fds = [arg |-> d, done |-> FALSE, ret |-> << >>]
    /\ hae = NoCall

NextFormat == format_dataset_summary_call

SpecFormat == InitFormat /\ [][NextFormat]_vars

----------------------------------------------------------------------------
\* Reading a rendered text

\* the first token of a line: the heading mark or the field label
Label(line) == IF Len(line) = 0 THEN "" ELSE line[1]

Labels(text) == [ j \in 1..Len(text) |-> Label(text[j]) ]

HasLabel(text, l) == \E j \in 1..Len(text) : Label(text[j]) = l

\* the lines of a text that carry a label, in order
LinesWith(text, l) == SelectSeq(text, LAMBDA line : Label(line) = l)

MandatoryLabels ==
    << "### ", "- **ID**: ", "- **Autor**: ", "- **Lizenz**: ", "- **Ressourcen**: ",
       "- **Letzte Aenderung**: " >>

\* the conditional lines of a summary: type, date updated, geographic
\* coverage, categories, tags, description
CondLabels ==
    << "- **Typ**: ", "- **Daten aktualisiert**: ", "- **Raeumliche Abdeckung**: ",
       "- **Kategorien**: ", "- **Tags**: ", "- **Beschreibung**: " >>

CondLabelSet == { CondLabels[k] : k \in 1..Len(CondLabels) }

\* an extras entry of the dataset carries the key with a non-empty value
ExtraNonEmpty(d, key) ==
    /\ "extras" \in DOMAIN d
    /\ \E j \in 1..Len(d.extras) : d.extras[j].key = key /\ d.extras[j].value # ""

\* the source field of the k-th conditional line is non-empty
SourceNonEmpty(d, k) ==
    CASE k = 1 -> ExtraNonEmpty(d, "berlin_type")
      [] k = 2 -> ExtraNonEmpty(d, "date_updated")
      [] k = 3 -> ExtraNonEmpty(d, "geographical_coverage")
      [] k = 4 -> "groups" \in DOMAIN d /\ Len(d.groups) > 0
      [] k = 5 -> "tags" \in DOMAIN d /\ Len(d.tags) > 0
      [] k = 6 -> "notes" \in DOMAIN d /\ Len(d.notes) > 0

\* the dataset has zero extras, zero groups and zero tags
ZeroExtrasGroupsTags(d) ==
    /\ "extras" \in DOMAIN d => Len(d.extras) = 0
    /\ "groups" \in DOMAIN d => Len(d.groups) = 0
    /\ "tags" \in DOMAIN d => Len(d.tags) = 0

----------------------------------------------------------------------------
\* C5 (as stated): a dataset with zero extras, zero groups and zero tags is
\* rendered as the title heading, the five mandatory field lines and the URL
\* line, with no conditional line.
C5_Original ==
    fds.done /\ ZeroExtrasGroupsTags(fds.arg)
    => Labels(fds.ret) = MandatoryLabels \o << "- **URL**: " >>

\* C5 (amended): a dataset with zero extras, zero groups and zero tags is
\* rendered as the title heading, the five mandatory field lines, the
\* description line exactly when its description is non-empty, and the URL
\* line; no type, date-updated, coverage, categories or tags line appears.
C5_ZeroOptionalFields ==
    fds.done /\ ZeroExtrasGroupsTags(fds.arg)
    => Labels(fds.ret) =
          MandatoryLabels
          \o (IF SourceNonEmpty(fds.arg, 6) THEN << "- **Beschreibung**: " >> ELSE << >>)
          \o << "- **URL**: " >>

C5_Witness ==
    /\ fds.done /\ ZeroExtrasGroupsTags(fds.arg)
    /\ "extras" \in DOMAIN fds.arg /\ "groups" \in DOMAIN fds.arg
    /\ SourceNonEmpty(fds.arg, 6)
    /\ Len(fds.ret) = 8

\* C6: format_dataset_summary emits each conditional line exactly when its
\* source field is non-empty and never with a blank value; the conditional
\* lines come in the order type, date updated, coverage, categories, tags,
\* description, each at most once, after the last-modified line (the sixth
\* line) and before the URL line, which is the last line.
C6_ConditionalLines ==
    fds.done =>
        LET out == fds.ret
            d   == fds.arg
        IN  /\ \A k \in 1..Len(CondLabels) : HasLabel(out, CondLabels[k]) <=> SourceNonEmpty(d, k)
            /\ \A j \in 1..Len(out) :
                  Label(out[j]) \in CondLabelSet => Len(out[j]) >= 2 /\ out[j][2] # ""
            /\ \A j1, j2 \in 1..Len(out) : \A k1, k2 \in 1..Len(CondLabels) :
                  j1 < j2 /\ Label(out[j1]) = CondLabels[k1] /\ Label(out[j2]) = CondLabels[k2]
                  => k1 < k2
            /\ Len(out) >= 7
            /\ SubSeq(Labels(out), 1, 6) = MandatoryLabels
            /\ \A j \in 1..Len(out) : Label(out[j]) \in CondLabelSet => j > 6 /\ j < Len(out)
            /\ \A j \in 1..Len(out) : Label(out[j]) = "- **URL**: " <=> j = Len(out)
            /\ \A j \in 7..(Len(out) - 1) : Label(out[j]) \in CondLabelSet

C6_Witness ==
    /\ fds.done
    /\ HasLabel(fds.ret, "- **Typ**: ") /\ ~HasLabel(fds.ret, "- **Daten aktualisiert**: ")
    /\ HasLabel(fds.ret, "- **Raeumliche Abdeckung**: ") /\ ~HasLabel(fds.ret, "- **Kategorien**: ")
    /\ HasLabel(fds.ret, "- **Tags**: ") /\ ~HasLabel(fds.ret, "- **Beschreibung**: ")
    /\ ExtraNonEmpty(fds.arg, "berlin_type") /\ ~ExtraNonEmpty(fds.arg, "date_updated")
    /\ \E j \in 1..Len(fds.arg.extras) : fds.arg.extras[j].key = "date_updated"

----------------------------------------------------------------------------
\* Reading an invocation

\* the context label each tool hands to the error translator
ContextOf(tool) ==
    CASE tool = "search"     -> "Datensatzsuche"
      [] tool = "get"        -> "Datensatz-Details"
      [] tool = "categories" -> "Kategorien"
      [] tool = "tags"       -> "Tag-Suche"
      [] tool = "analyze"    -> "Datensatz-Analyse"
      [] tool = "stats"      -> "Katalog-Statistiken"

\* the text begins with "Fehler bei <context>: "
BeginsWithErrorPrefix(text, context) ==
    /\ Len(text) >= 1 /\ Len(text[1]) >= 3
    /\ SubSeq(text[1], 1, 3) = << "Fehler bei ", context, ": " >>

StatusOk(resp) == resp.kind = "response" /\ resp.status \in 200..299
SuccessTrue(resp) == "success" \in DOMAIN resp.body /\ resp.body.success = TRUE
HasResult(resp) == "result" \in DOMAIN resp.body

\* the first expected field a tool finds missing in the result payload it was
\* given, "" when the payload has them all
MissingField(p, result) ==
    LET lacks(k) == k \notin DOMAIN result
        entry(items) ==
            LET bad == { j \in 1..Len(items) : ~({"title", "name"} \subseteq DOMAIN items[j]) }
            IN  IF bad = {} THEN ""
                ELSE LET j == CHOOSE x \in bad : \A y \in bad : x <= y
                     IN  IF "title" \in DOMAIN items[j] THEN "name" ELSE "title"
    IN  CASE p.tool = "search"  -> IF lacks("count") THEN "count" ELSE IF lacks("results") THEN "results" ELSE ""
          [] p.tool = "analyze" -> IF lacks("results") THEN "results" ELSE IF lacks("count") THEN "count" ELSE ""
          [] p.tool = "stats"   -> IF lacks("count") THEN "count" ELSE ""
          [] p.tool = "categories" ->
                IF p.group_id \in {NONE, ""} THEN entry(result)
                ELSE IF lacks("title") THEN "title"
                ELSE IF lacks("packages") THEN "" ELSE entry(result.packages)
          [] OTHER -> ""

\* the invocation met one of the failures: its request failed (status, timeout,
\* transport, envelope) or its result payload lacks an expected field
RequestFailed(i) == ~(StatusOk(response[i]) /\ SuccessTrue(response[i]) /\ HasResult(response[i]))
PayloadLacksField(i) == ~RequestFailed(i) /\ MissingField(params[i], response[i].body.result) # ""

----------------------------------------------------------------------------
\* C1: an invocation of any of the six tools never ends by raising; when its
\* request fails (non-success status, timeout, success=false) or its result
\* payload lacks an expected field, it returns exactly the error translator's
\* text for that failure under the tool's own context label, which begins with
\* "Fehler bei <context>: ".  A 404 during get-by-id returns the not-found
\* text; a category lookup of an unknown slug returns a text with the prefix.
C1_FailuresBecomeDiagnostics ==
    \A i \in Inv : pc[i] = "returned" =>
        LET ctx == ContextOf(params[i].tool)
        IN  /\ ~ret[i].raised
            /\ RequestFailed(i) =>
                  /\ ckan[i].raised
                  /\ ret[i].value = handle_api_error(ckan[i].exc, ctx)
                  /\ BeginsWithErrorPrefix(ret[i].value, ctx)
            /\ PayloadLacksField(i) =>
                  /\ ret[i].value =
                        handle_api_error(KeyError(MissingField(params[i], response[i].body.result)), ctx)
                  /\ BeginsWithErrorPrefix(ret[i].value, ctx)
            /\ ~RequestFailed(i) /\ ~PayloadLacksField(i) => ~BeginsWithErrorPrefix(ret[i].value, ctx)
            /\ params[i].tool = "get" /\ response[i].kind = "response" /\ response[i].status = 404 =>
                  ret[i].value = << << "Fehler bei ", "Datensatz-Details", ": ",
                                       "Ressource nicht gefunden. Bitte ID/Name pruefen." >> >>
            /\ params[i].tool = "categories" /\ params[i].group_id = "gibtsnicht" =>
                  BeginsWithErrorPrefix(ret[i].value, "Kategorien")

C1_Witness ==
    /\ pc[1] = "returned" /\ params[1].tool = "categories" /\ params[1].group_id = "gibtsnicht"
    /\ response[1].kind = "response" /\ response[1].status = 404
    /\ ~ret[1].raised
    /\ ret[1].value = << << "Fehler bei ", "Kategorien", ": ",
                            "Ressource nicht gefunden. Bitte ID/Name pruefen." >> >>

\* C7: ckan_request returns the envelope's result exactly when the status is
\* in the success range and the envelope's success flag is true (and the
\* envelope carries a result).  A non-success status raises HTTPStatusError
\* with that status whatever the envelope says; a success status whose flag
\* is not true raises RuntimeError carrying the server's message, or
\* "Unknown CKAN error" when there is none; neither returns a result.
C7_EnvelopeDecides ==
    \A i \in Inv : pc[i] = "returned" =>
        LET r == response[i]
            k == ckan[i]
        IN  /\ ~k.raised <=> StatusOk(r) /\ SuccessTrue(r) /\ HasResult(r)
            /\ ~k.raised => k.value = r.body.result
            /\ r.kind = "response" /\ ~StatusOk(r) =>
                  /\ k.raised /\ k.exc.cls = "HTTPStatusError" /\ k.exc.status = r.status
                  /\ k.value = << >>
            /\ StatusOk(r) /\ ~SuccessTrue(r) =>
                  /\ k.raised /\ k.exc.cls = "RuntimeError"
                  /\ k.exc.msg =
                        << "CKAN API error: ",
                           IF "error" \in DOMAIN r.body /\ "message" \in DOMAIN r.body.error
                           THEN r.body.error.message ELSE "Unknown CKAN error" >>
                  /\ k.value = << >>

C7_Witness ==
    /\ pc[1] = "returned"
    /\ StatusOk(response[1]) /\ ~SuccessTrue(response[1]) /\ HasResult(response[1])
    /\ "error" \notin DOMAIN response[1].body
    /\ ckan[1].raised /\ ckan[1].exc.msg = << "CKAN API error: ", "Unknown CKAN error" >>

----------------------------------------------------------------------------
\* the diagnostic of a timeout under a context label
TimeoutText(context) ==
    << << "Fehler bei ", context, ": ", "Zeitueberschreitung. Bitte erneut versuchen." >> >>

\* C8 (state part): an invocation has issued no request before it starts and
\* exactly one from then on; list-categories issues group_show when it has an
\* argument and group_list when it has none; an invocation whose request
\* failed has returned its diagnostic with that single request issued.
C8_OneRequest ==
    \A i \in Inv :
        /\ pc[i] \in {"idle", "invalid"} => Len(sent[i]) = 0
        /\ pc[i] \in {"awaiting", "responded", "returned"} => Len(sent[i]) = 1
        /\ pc[i] \in {"awaiting", "responded", "returned"} /\ params[i].tool = "categories" =>
              sent[i][1].action = (IF params[i].group_id \in {NONE, ""} THEN "group_list" ELSE "group_show")
        /\ pc[i] = "returned" /\ RequestFailed(i) =>
              /\ ~ret[i].raised
              /\ BeginsWithErrorPrefix(ret[i].value, ContextOf(params[i].tool))
              /\ response[i].kind = "raise" => ret[i].value = TimeoutText(ContextOf(params[i].tool))

\* C8 (step part): a request once issued is never followed by another one of
\* the same invocation, and the step after the response arrived is the return.
C8_NoReissue ==
    \A i \in Inv :
        /\ Len(sent[i]) > 0 => sent'[i] = sent[i]
        /\ pc[i] = "responded" /\ pc'[i] # "responded" => pc'[i] = "returned"
        /\ pc[i] = "returned" => pc'[i] = "returned" /\ ret'[i] = ret[i]

\* C8: no retries.  Every tool invocation issues exactly one catalog request
\* (list-categories either the lookup or the listing), a request that timed
\* out or failed is never issued again, and the invocation returns its
\* diagnostic in the step that follows the single failed attempt.
C8_NoRetries == [] C8_OneRequest /\ [][C8_NoReissue]_vars

C8_Witness ==
    /\ pc[1] = "returned" /\ params[1].tool = "categories" /\ params[1].group_id = NONE
    /\ response[1].kind = "raise" /\ Len(sent[1]) = 1 /\ sent[1][1].action = "group_list"
    /\ ret[1].value = TimeoutText("Kategorien")

----------------------------------------------------------------------------
\* what a tool computes from its own arguments and its own response alone
ToolAlone(p, resp) ==
    CASE p.tool = "search"     -> berlin_search_datasets(p, resp)
      [] p.tool = "get"        -> berlin_get_dataset(p, resp)
      [] p.tool = "categories" -> berlin_list_categories(p, resp)
      [] p.tool = "tags"       -> berlin_list_tags(p, resp)
      [] p.tool = "analyze"    -> berlin_analyze_datasets(p, resp)
      [] p.tool = "stats"      -> berlin_catalog_stats(p, resp)

\* C9 (state part): the response an invocation is resumed with is the answer
\* to its own request; its returned text is what the tool computes from its
\* own arguments and that response, so two invocations with equal arguments
\* and equal responses return equal texts whatever else ran or failed; the
\* category-slug list keeps its initial value.
C9_OwnState ==
    /\ groups_cfg = BERLIN_GROUPS
    /\ \A i \in Inv :
          /\ pc[i] \in {"responded", "returned"} => response[i].request = sent[i][1]
          /\ pc[i] = "returned" => ret[i] = ToolAlone(params[i], response[i])
    /\ \A i, j \in Inv :
          (pc[i] = "returned" /\ pc[j] = "returned"
           /\ params[i] = params[j] /\ response[i] = response[j])
          => ret[i] = ret[j]

\* C9 (step part): a step changes the state of one invocation only, and the
\* outcome of an invocation that has returned never changes afterwards.
C9_OwnStep ==
    /\ groups_cfg' = groups_cfg
    /\ \A i, j \in Inv :
          i # j /\ pc'[i] # pc[i] =>
              /\ pc'[j] = pc[j] /\ params'[j] = params[j] /\ sent'[j] = sent[j]
              /\ response'[j] = response[j] /\ ret'[j] = ret[j]
    /\ \A i \in Inv : pc[i] = "returned" => pc'[i] = "returned" /\ ret'[i] = ret[i]

\* C9: invocations in flight together are independent under every
\* interleaving of their request and response steps: none reads or writes
\* state of another, and a failure of one leaves the others' outcomes alone.
C9_Independent == [] C9_OwnState /\ [][C9_OwnStep]_vars

\* two invocations in flight together, one failed and one succeeded
C9_Witness ==
    /\ pc[1] = "returned" /\ pc[2] = "returned"
    /\ params[1].tool = "get" /\ params[2].tool = "get"
    /\ RequestFailed(1) /\ ~RequestFailed(2)
    /\ BeginsWithErrorPrefix(ret[1].value, "Datensatz-Details")
    /\ ~BeginsWithErrorPrefix(ret[2].value, "Datensatz-Details")
    /\ Len(ret[2].value) > 7

----------------------------------------------------------------------------
\* Specification of one search invocation: the row count is drawn around both
\* limits of its field, and the catalog answers with a total and a slice that
\* fits the rows asked for and what is left of the total after the offset.

SearchInputs ==
    { [tool |-> "search", query |-> "Einwohner", rows |-> r, offset |-> o,
       sort |-> NONE, filter_group |-> NONE] :
        r \in {0} \cup (1..MaxArg) \cup {ROWS_MAX, ROWS_MAX + 1}, o \in 0..MaxOffset }

SearchReplies(req) ==
    { GetRaises(ReadTimeout), GetReturns(200, ErrorBody) }
    \cup UNION { { Ok([count |-> t, results |-> ds]) :
                     ds \in { d \in SeqsUpTo({DatasetA, DatasetB}, MaxReturned) :
                                /\ Len(d) <= req.params.rows
                                /\ Len(d) <= (IF t > req.params.start THEN t - req.params.start ELSE 0) } } :
                 t \in 0..MaxTotal }

NextSearch ==
    \/ \E p \in SearchInputs : Reject(1, p)
    \/ \E p \in SearchInputs : berlin_search_datasets_call(1, p)
    \/ (pc[1] = "awaiting" /\ \E r \in SearchReplies(Pending(1)) : client_get_completes(1, r))
    \/ berlin_search_datasets_resume(1)

SpecSearch == Init /\ [][NextSearch]_vars

\* invocation 1 is a search that returned after the catalog gave a total and a slice
SearchAnswered ==
    /\ pc[1] = "returned" /\ params[1].tool = "search"
    /\ ~RequestFailed(1) /\ MissingField(params[1], response[1].body.result) = ""

\* some line of the text states the number
ReportsNumber(text, n) ==
    \E j \in 1..Len(text) : \E k \in 1..Len(text[j]) : text[j][k] = ToString(n)

NotFoundLine(query) == << "Keine Datensaetze gefunden fuer '", query, "'." >>
HeaderLine(total, query) ==
    << "## Suchergebnis: ", ToString(total), " Datensaetze fuer '", query, "'" >>
HintLine(next) == << "*", ARROW, " Weitere Ergebnisse mit offset=", ToString(next), "*" >>


\* C2 (as stated): a search with rows=0 is a valid query; it ends with an
\* output, and when the catalog returned an empty slice with its total the
\* output reports that total and has no dataset blocks.
C2_Original ==
    (params[1].tool = "search" /\ params[1].rows = 0 /\ pc[1] \in {"invalid", "returned"}) =>
        /\ pc[1] = "returned"
        /\ (SearchAnswered /\ Len(response[1].body.result.results) = 0) =>
              /\ ReportsNumber(ret[1].value, response[1].body.result.count)
              /\ LinesWith(ret[1].value, "### ") = << >>

\* C2 (amended): a search with rows=0 is rejected by input validation before
\* any catalog request is issued and produces no search output; a valid search
\* for which the catalog returns an empty result slice together with its total
\* produces exactly the line "Keine Datensaetze gefunden fuer '<query>'.",
\* which has no dataset blocks and does not report the total.
C2_EmptySlice ==
    /\ (params[1].tool = "search" /\ params[1].rows = 0) =>
          pc[1] = "invalid" /\ Len(sent[1]) = 0 /\ ret[1] = NotReturned
    /\ (SearchAnswered /\ Len(response[1].body.result.results) = 0) =>
          /\ params[1].rows \in ROWS_MIN..ROWS_MAX
          /\ ret[1] = Return(<< NotFoundLine(params[1].query) >>)
          /\ LinesWith(ret[1].value, "### ") = << >>
          /\ ~ReportsNumber(ret[1].value, response[1].body.result.count)

\* an empty slice of a positive total, asked for beyond the end of the matches
C2_Witness ==
    /\ SearchAnswered /\ Len(response[1].body.result.results) = 0
    /\ response[1].body.result.count > 0
    /\ params[1].offset >= response[1].body.result.count
    /\ ret[1].value = << NotFoundLine("Einwohner") >>

\* C3: a successful search with n >= 1 results, total T and offset o returns
\* a text whose first line states T and the query, whose dataset blocks are
\* exactly the n returned datasets in catalog order, and whose next-offset
\* hint is there, as the last line and naming o + n, if and only if T > o + n.
C3_SearchPage ==
    (SearchAnswered /\ Len(response[1].body.result.results) >= 1) =>
        LET T    == response[1].body.result.count
            ds   == response[1].body.result.results
            n    == Len(ds)
            o    == params[1].offset
            text == ret[1].value
        IN  /\ ~ret[1].raised
            /\ text[1] = HeaderLine(T, params[1].query)
            /\ LinesWith(text, "### ") =
                  [ j \in 1..n |-> << "### ", Get(ds[j], "title", "Unbekannt") >> ]
            /\ LinesWith(text, "- **ID**: ") =
                  [ j \in 1..n |-> << "- **ID**: ", BACKTICK, ds[j].name, BACKTICK >> ]
            /\ LinesWith(text, "- **URL**: ") =
                  [ j \in 1..n |-> << "- **URL**: ", PORTAL_URL, "/datensaetze/", ds[j].name >> ]
            /\ T > o + n => LinesWith(text, "*") = << HintLine(o + n) >> /\ text[Len(text)] = HintLine(o + n)
            /\ ~(T > o + n) => LinesWith(text, "*") = << >>

\* two results in catalog order with one more to come
C3_Witness ==
    /\ SearchAnswered
    /\ response[1].body.result.results = << DatasetB, DatasetA >>
    /\ response[1].body.result.count = 3 /\ params[1].offset = 0
    /\ ret[1].value[Len(ret[1].value)] = HintLine(2)

----------------------------------------------------------------------------
\* Specification of one list-tags invocation: the limit is drawn around both
\* limits of its field, and the catalog answers with tag lists shorter than,
\* as long as and longer than the limit.

TagsInputs ==
    { [tool |-> "tags", query |-> q, limit |-> k] :
        q \in {NONE, "einw"}, k \in {0} \cup (1..MaxArg) \cup {LIMIT_MAX, LIMIT_MAX + 1} }

\* a tag list one longer than the largest limit
ManyTags == [ j \in 1..(LIMIT_MAX + 1) |-> ToString(j) ]

TagsReplies(req) ==
    { GetRaises(ReadTimeout), GetReturns(200, ErrorBody), Ok(ManyTags) }
    \cup { Ok(ts) : ts \in SeqsUpTo({"einwohner", "einwohnerzahl"}, MaxReturned) }

NextTags ==
    \/ \E p \in TagsInputs : Reject(1, p)
    \/ \E p \in TagsInputs : berlin_list_tags_call(1, p)
    \/ (pc[1] = "awaiting" /\ \E r \in TagsReplies(Pending(1)) : client_get_completes(1, r))
    \/ berlin_list_tags_resume(1)

SpecTags == Init /\ [][NextTags]_vars

\* invocation 1 is a list-tags that returned after the catalog gave a tag list
TagsAnswered == pc[1] = "returned" /\ params[1].tool = "tags" /\ ~RequestFailed(1)

\* C4: list-tags with limit k never lists more than k tags, whatever number
\* the catalog returned; the tags listed are the first min(k, number
\* returned) tags in catalog order, and the count in the header is the
\* number of tags listed.
C4_TagsCapped ==
    TagsAnswered =>
        LET k       == params[1].limit
            result  == response[1].body.result
            m       == IF Len(result) < k THEN Len(result) ELSE k
            text    == ret[1].value
            entries == LinesWith(text, "- ")
        IN  /\ k \in LIMIT_MIN..LIMIT_MAX
            /\ ~ret[1].raised
            /\ Len(entries) <= k
            /\ entries = [ j \in 1..m |-> << "- ", BACKTICK, result[j], BACKTICK >> ]
            /\ Len(result) > 0 =>
                  text[1] = << "## Tags (", ToString(Len(entries)), " Ergebnisse)" >>
            /\ Len(result) = 0 => LinesWith(text, "## Tags (") = << >>

\* the catalog returned more tags than the largest limit allows
C4_Witness ==
    /\ TagsAnswered /\ params[1].limit = LIMIT_MAX
    /\ Len(response[1].body.result) = LIMIT_MAX + 1
    /\ Len(LinesWith(ret[1].value, "- ")) = LIMIT_MAX
    /\ ret[1].value[1] = << "## Tags (", "100", " Ergebnisse)" >>

----------------------------------------------------------------------------
\* Specification of one analyze invocation: both flags take both values, and
\* the catalog answers with up to as many datasets as asked for.

AnalyzeInputs ==
    { [tool |-> "analyze", query |-> "Verkehr", max_datasets |-> m,
       include_structure |-> st, include_freshness |-> fr] :
        m \in {0} \cup (1..MaxArg) \cup {MAX_DATASETS_MAX + 1}, st \in BOOLEAN, fr \in BOOLEAN }

AnalyzeReplies(req) ==
    { GetRaises(ReadTimeout), GetReturns(200, ErrorBody) }
    \cup { Ok([count |-> MaxTotal, results |-> ds]) :
            ds \in { d \in SeqsUpTo({DatasetA, DatasetB, DatasetC}, MaxReturned) :
                       Len(d) <= req.params.rows } }

NextAnalyze ==
    \/ \E p \in AnalyzeInputs : Reject(1, p)
    \/ \E p \in AnalyzeInputs : berlin_analyze_datasets_call(1, p)
    \/ (pc[1] = "awaiting" /\ \E r \in AnalyzeReplies(Pending(1)) : client_get_completes(1, r))
    \/ berlin_analyze_datasets_resume(1)

SpecAnalyze == Init /\ [][NextAnalyze]_vars

\* invocation 1 is an analyze that returned after the catalog gave datasets
AnalyzeAnswered ==
    /\ pc[1] = "returned" /\ params[1].tool = "analyze"
    /\ ~RequestFailed(1) /\ MissingField(params[1], response[1].body.result) = ""

\* the positions of the entry headings of a text, in order
HeadingAt(text) ==
    SelectSeq([ j \in 1..Len(text) |-> j ], LAMBDA j : Label(text[j]) = "### ")

\* the m-th entry of a text: from its heading to the line before the next one
EntryOf(text, m) ==
    LET at == HeadingAt(text)
    IN  SubSeq(text, at[m], IF m < Len(at) THEN at[m + 1] - 1 ELSE Len(text))

\* C10: in analyze every returned dataset has its entry, and in every entry
\* the freshness flag alone decides the last-modified and date-updated lines
\* (none when it is false, the last-modified line when it is true) and the
\* structure flag alone decides the resource lines (one per resource of the
\* dataset with its name, format and URL when it is true, none when it is
\* false), under all four combinations of the two flags.
C10_FlagsGateOwnLines ==
    AnalyzeAnswered =>
        LET ds   == response[1].body.result.results
            text == ret[1].value
        IN  /\ ~ret[1].raised
            /\ Len(ds) > 0 => Len(HeadingAt(text)) = Len(ds)
            /\ \A m \in 1..Len(ds) :
                  LET entry     == EntryOf(text, m)
                      resources == Get(ds[m], "resources", << >>)
                  IN  /\ entry[1] = << "### ", ToString(m), ". ", Get(ds[m], "title", "?") >>
                      /\ params[1].include_freshness =>
                            Len(LinesWith(entry, "- **Letzte Aenderung**: ")) = 1
                      /\ ~params[1].include_freshness =>
                            /\ ~HasLabel(entry, "- **Letzte Aenderung**: ")
                            /\ ~HasLabel(entry, "- **Daten aktualisiert**: ")
                      /\ params[1].include_structure =>
                            LinesWith(entry, "  - ") =
                               [ j \in 1..Len(resources) |->
                                   << "  - ", Get(resources[j], "name", "Unbenannt"), " (",
                                      Get(resources[j], "format", "?"), "): ",
                                      Get(resources[j], "url", "") >> ]
                      /\ ~params[1].include_structure => ~HasLabel(entry, "  - ")

\* structure without freshness, for a dataset that has an update date and two resources
C10_Witness ==
    /\ AnalyzeAnswered
    /\ params[1].include_structure /\ ~params[1].include_freshness
    /\ response[1].body.result.results = << DatasetC, DatasetA >>
    /\ Len(LinesWith(EntryOf(ret[1].value, 2), "  - ")) = 2
    /\ ~HasLabel(ret[1].value, "- **Daten aktualisiert**: ")

----------------------------------------------------------------------------
\* Specification of one catalog-stats invocation: the catalog answers with a
\* total and with facets under either key, each of the three dimensions
\* absent or present in either shape, the format facet with more than
\* FORMAT_TOP items.

FacetOf(shape, items) ==
    IF shape = "dict" THEN [shape |-> "dict", items |-> items] ELSE [shape |-> "list", list |-> items]

GroupItems ==
    << [name |-> "bildung", display_name |-> "Bildung", count |-> 3],
       [name |-> "verkehr", display_name |-> "Verkehr", count |-> 7] >>
FormatItems == << [name |-> "CSV", count |-> 5], [name |-> "PDF", count |-> 5], [name |-> "WMS", count |-> 9] >>
ManyFormatItems == [ j \in 1..(FORMAT_TOP + 1) |-> [name |-> ToString(j), count |-> j] ]
TagItems == << [name |-> "kita", count |-> 1], [name |-> "vhs", count |-> 4] >>

\* a dimension of the facets: absent (no element) or one of its values
FacetChoices(key, itemLists) ==
    { << >> } \cup { key :> FacetOf(sh, it) : sh \in {"dict", "list"}, it \in itemLists }

StatsFacetSets ==
    { g @@ f @@ t :
        g \in FacetChoices("groups", { GroupItems }),
        f \in FacetChoices("res_format", { FormatItems, ManyFormatItems }),
        t \in FacetChoices("tags", { TagItems }) } \ { << >> }

StatsReplies(req) ==
    { GetRaises(ReadTimeout), GetReturns(200, ErrorBody) }
    \cup { Ok([count |-> t]) : t \in 0..MaxTotal }
    \cup { Ok([count |-> MaxTotal] @@ (k :> fs)) : k \in {"search_facets", "facets"}, fs \in StatsFacetSets }

NextStats ==
    \/ berlin_catalog_stats_call(1, [tool |-> "stats"])
    \/ (pc[1] = "awaiting" /\ \E r \in StatsReplies(Pending(1)) : client_get_completes(1, r))
    \/ berlin_catalog_stats_resume(1)

SpecStats == Init /\ [][NextStats]_vars

\* invocation 1 is a catalog-stats that returned after the catalog gave its total
StatsAnswered ==
    /\ pc[1] = "returned" /\ params[1].tool = "stats"
    /\ ~RequestFailed(1) /\ "count" \in DOMAIN response[1].body.result

\* the facets of the response, under either key
FacetsOf(result) ==
    IF "search_facets" \in DOMAIN result THEN result.search_facets
    ELSE IF "facets" \in DOMAIN result THEN result.facets
    ELSE [nofacets |-> TRUE]

\* the items of a facet value in either shape
ItemsOf(facet) == IF facet.shape = "dict" THEN facet.items ELSE facet.list

\* the counts of a sequence of items never rise
CountsDescend(items) ==
    \A j \in 1..(Len(items) - 1) : items[j].count >= items[j + 1].count

\* the item lines that follow a heading of the text, up to the next line that is not one
SectionAfter(text, heading) ==
    LET at == { j \in 1..Len(text) : text[j] = << heading >> }
    IN  IF at = {} THEN << >>
        ELSE LET h   == CHOOSE j \in at : TRUE
                 end == CHOOSE e \in h..Len(text) :
                           /\ \A j \in (h + 1)..e : Label(text[j]) = "- **"
                           /\ e < Len(text) => Label(text[e + 1]) # "- **"
             IN  SubSeq(text, h + 1, end)

\* the name and the count a rendered item line shows
ShownItem(line) == << line[2], line[4] >>
NameAndCount(item) == << Get(item, "display_name", item.name), ToString(item.count) >>

\* the count of the item a rendered line shows
CountShown(line, items) ==
    items[CHOOSE k \in 1..Len(items) : NameAndCount(items[k]) = ShownItem(line)].count

\* the lines show the cap items of largest count (all of them when there are
\* no more than cap), each once, in descending order of count
ListsTopDescending(lines, items, cap) ==
    /\ Len(lines) = (IF Len(items) < cap THEN Len(items) ELSE cap)
    /\ \A j \in 1..Len(lines) : \E k \in 1..Len(items) : ShownItem(lines[j]) = NameAndCount(items[k])
    /\ \A a, b \in 1..Len(lines) : a # b => ShownItem(lines[a]) # ShownItem(lines[b])
    /\ \A j \in 1..(Len(lines) - 1) : CountShown(lines[j], items) >= CountShown(lines[j + 1], items)
    /\ \A k \in 1..Len(items) :
          (\A j \in 1..Len(lines) : ShownItem(lines[j]) # NameAndCount(items[k]))
          => \A j \in 1..Len(lines) : CountShown(lines[j], items) >= items[k].count

\* the lines of the text that show an item of the list
LinesShowing(text, items) ==
    SelectSeq(text, LAMBDA line :
        /\ Label(line) = "- **"
        /\ \E k \in 1..Len(items) : ShownItem(line) = NameAndCount(items[k]))

\* C11 (as stated): catalog-stats issues a zero-row search asking for the
\* category, format and tag facets; its output states the total and, for each
\* of the three dimensions present in the response in either shape, lists
\* that dimension's items in descending order of count, the formats capped
\* to the top FORMAT_TOP.
C11_ThreeFacetSections ==
    /\ \A i \in Inv : (pc[i] \in {"awaiting", "responded", "returned"} /\ params[i].tool = "stats") =>
          /\ sent[i][1].action = "package_search"
          /\ sent[i][1].params.rows = 0
          /\ sent[i][1].params.facet_field = << "groups", "res_format", "tags" >>
    /\ StatsAnswered =>
          LET result == response[1].body.result
              facets == FacetsOf(result)
              text   == ret[1].value
          IN  /\ text[2] = << "**Gesamtzahl Datensaetze**: ", ToString(result.count) >>
              /\ "groups" \in DOMAIN facets =>
                    ListsTopDescending(SectionAfter(text, "### Kategorien"),
                                       ItemsOf(facets.groups), Len(ItemsOf(facets.groups)))
              /\ "res_format" \in DOMAIN facets =>
                    ListsTopDescending(SectionAfter(text, "### Haeufigste Formate"),
                                       ItemsOf(facets.res_format), FORMAT_TOP)
              /\ "tags" \in DOMAIN facets =>
                    ListsTopDescending(LinesShowing(text, ItemsOf(facets.tags)),
                                       ItemsOf(facets.tags), Len(ItemsOf(facets.tags)))

\* what the code does of it: the total, the category section and the capped
\* format section; no line of the text shows an item of the tag facet
C11_TwoFacetSections ==
    StatsAnswered =>
        LET result == response[1].body.result
            facets == FacetsOf(result)
            text   == ret[1].value
        IN  /\ text[2] = << "**Gesamtzahl Datensaetze**: ", ToString(result.count) >>
            /\ "groups" \in DOMAIN facets =>
                  ListsTopDescending(SectionAfter(text, "### Kategorien"),
                                     ItemsOf(facets.groups), Len(ItemsOf(facets.groups)))
            /\ "res_format" \in DOMAIN facets =>
                  ListsTopDescending(SectionAfter(text, "### Haeufigste Formate"),
                                     ItemsOf(facets.res_format), FORMAT_TOP)
            /\ "tags" \in DOMAIN facets => LinesShowing(text, ItemsOf(facets.tags)) = << >>

----------------------------------------------------------------------------
\* Specification of the error translator: Init draws the failure and the
\* context, the action applies handle_api_error to them

\* the statuses of an HTTP status failure: raise_for_status raises outside 2xx
FailureStatuses == {301, 400, 403, 404, 429, 500, 503}

ErrorInputs ==
    { HTTPStatusError(st) : st \in FailureStatuses }
    \cup { ReadTimeout, ConnectTimeout, ConnectError, JSONDecodeError, KeyError("count"),
           RuntimeError(<< "CKAN API error: ", "Not found" >>), RuntimeError(<< >>) }

ContextInputs ==
    { "", "Datensatzsuche", "Datensatz-Details", "Kategorien", "Tag-Suche",
      "Datensatz-Analyse", "Katalog-Statistiken" }

InitErrors ==
    /\ InitInvocations
    /\ fds = [arg |-> NoDataset, done |-> FALSE, ret |-> << >>]
    /\ \E e \in ErrorInputs, c \in ContextInputs :
          hae = [e |-> e, context |-> c, done |-> FALSE, ret |-> << >>]

NextErrors == handle_api_error_call

SpecErrors == InitErrors /\ [][NextErrors]_vars

\* the tokens a one-line text has after its first n tokens
AfterPrefix(text, n) == SubSeq(text[1], n + 1, Len(text[1]))

\* C12: the error translator returns, for every failure and every context, a
\* one-line text that starts with "Fehler bei <context>: " ("Fehler: " when
\* the context is empty) and goes on with the not-found text for status 404,
\* the access-denied text for 403, the rate-limited text for 429, the HTTP
\* error text with the status for any other status, the timed-out text for a
\* timeout, and the class name and str(e) for any other failure; an HTTP
\* status failure gets the text of its status, never the timeout or the
\* fallback text.
C12_ErrorTranslator ==
    hae.done =>
        LET e      == hae.e
            n      == IF hae.context = "" THEN 1 ELSE 3
            rest   == AfterPrefix(hae.ret, n)
        IN  /\ Len(hae.ret) = 1 /\ Len(hae.ret[1]) > n
            /\ hae.context = "" => hae.ret[1][1] = "Fehler: "
            /\ hae.context # "" => SubSeq(hae.ret[1], 1, 3) = << "Fehler bei ", hae.context, ": " >>
            /\ e.cls = "HTTPStatusError" =>
                  rest = CASE e.status = 404 -> << "Ressource nicht gefunden. Bitte ID/Name pruefen." >>
                           [] e.status = 403 -> << "Zugriff verweigert." >>
                           [] e.status = 429 -> << "Zu viele Anfragen. Bitte warten." >>
                           [] OTHER          -> << "HTTP-Fehler ", ToString(e.status) >>
            /\ e.cls \in {"ReadTimeout", "ConnectTimeout"} =>
                  rest = << "Zeitueberschreitung. Bitte erneut versuchen." >>
            /\ e.cls \notin {"HTTPStatusError", "ReadTimeout", "ConnectTimeout"} =>
                  rest = << e.cls, ": " >> \o e.msg

\* a status other than the three named ones, translated without a context
C12_Witness ==
    /\ hae.done /\ hae.e.cls = "HTTPStatusError" /\ hae.e.status = 503 /\ hae.context = ""
    /\ hae.ret = << << "Fehler: ", "HTTP-Fehler ", "503" >> >>

----------------------------------------------------------------------------
\* Specification of one analyze invocation against a catalog whose result
\* slice may be longer than the rows asked for: the tool reads the slice as
\* it comes.

AnalyzeRepliesAnyLength(req) ==
    { GetRaises(ReadTimeout), GetReturns(200, ErrorBody) }
    \cup { Ok([count |-> MaxTotal, results |-> ds]) :
            ds \in SeqsUpTo({DatasetA, DatasetB, DatasetC}, MaxReturned) }

NextAnalyzeAnyLength ==
    \/ \E p \in AnalyzeInputs : Reject(1, p)
    \/ \E p \in AnalyzeInputs : berlin_analyze_datasets_call(1, p)
    \/ (pc[1] = "awaiting" /\ \E r \in AnalyzeRepliesAnyLength(Pending(1)) : client_get_completes(1, r))
    \/ berlin_analyze_datasets_resume(1)

SpecAnalyzeAnyLength == Init /\ [][NextAnalyzeAnyLength]_vars

\* the entries of the text are numbered from 1 in the order of the returned datasets
EntriesInReturnedOrder(text, ds) ==
    LET at == HeadingAt(text)
    IN  \A m \in 1..Len(at) :
            /\ m <= Len(ds)
            /\ text[at[m]] = << "### ", ToString(m), ". ", Get(ds[m], "title", "?") >>
            /\ text[at[m] + 1] = << "- **ID**: ", BACKTICK, Get(ds[m], "name", ""), BACKTICK >>

\* C13 (as stated): analyze with max_datasets = N renders entries for the top
\* N results only: never more than N entries, also when the catalog returned
\* more than N results, numbered 1..n in the order the catalog returned them.
C13_AtMostNEntries ==
    AnalyzeAnswered =>
        LET N    == params[1].max_datasets
            ds   == response[1].body.result.results
            text == ret[1].value
        IN  /\ N \in MAX_DATASETS_MIN..MAX_DATASETS_MAX
            /\ Len(HeadingAt(text)) <= N
            /\ Len(HeadingAt(text)) = (IF Len(ds) < N THEN Len(ds) ELSE N)
            /\ EntriesInReturnedOrder(text, ds)

\* what the code does of it: one entry per returned dataset, numbered in the
\* returned order, so no more than N when the slice has no more than N
C13_OneEntryPerReturned ==
    AnalyzeAnswered =>
        LET ds   == response[1].body.result.results
            text == ret[1].value
        IN  /\ Len(HeadingAt(text)) = Len(ds)
            /\ EntriesInReturnedOrder(text, ds)

\* the geographic coverage of a dataset: the value of its extras entry, ""
\* when it has none
GeoOf(dataset) ==
    IF ExtraNonEmpty(dataset, "geographical_coverage")
    THEN LET j == CHOOSE k \in 1..Len(dataset.extras) :
                     dataset.extras[k].key = "geographical_coverage"
         IN  dataset.extras[j].value
    ELSE ""

\* C14: in analyze the geographic-coverage line is placed per dataset: the
\* entry of a dataset has the line if and only if the extras of that dataset
\* carry a non-empty geographic coverage, the line shows that dataset's own
\* value, it stands before the URL line of its entry, and no such line
\* follows the last entry.
C14_GeoPerDataset ==
    AnalyzeAnswered =>
        LET ds   == response[1].body.result.results
            text == ret[1].value
            at   == HeadingAt(text)
        IN  /\ Len(ds) > 0 => Len(at) = Len(ds)
            /\ \A m \in 1..Len(ds) :
                  LET entry == EntryOf(text, m)
                      geo   == LinesWith(entry, "- **Raeumliche Abdeckung**: ")
                  IN  /\ GeoOf(ds[m]) # "" =>
                            geo = << << "- **Raeumliche Abdeckung**: ", GeoOf(ds[m]) >> >>
                      /\ GeoOf(ds[m]) = "" => geo = << >>
                      /\ Label(entry[Len(entry) - 1]) = "- **URL**: "
                      /\ entry[Len(entry)] = << >>

\* a dataset with a coverage followed by a last dataset without one
C14_Witness ==
    /\ AnalyzeAnswered
    /\ response[1].body.result.results = << DatasetA, DatasetB >>
    /\ LinesWith(EntryOf(ret[1].value, 1), "- **Raeumliche Abdeckung**: ")
          = << << "- **Raeumliche Abdeckung**: ", "Berlin" >> >>
    /\ ~HasLabel(EntryOf(ret[1].value, 2), "- **Raeumliche Abdeckung**: ")

====
